---- MODULE Spec2Model ----
(***************************************************************************)
(* Model of the hierarchical state machine engine of src/src/hsm.c:        *)
(* the bounded event queue (initEventQueue, putEvent, getEvent), the       *)
(* transition algorithm (setState), initHSM, processHSM and sendEvent.     *)
(***************************************************************************)
EXTENDS Integers, Sequences, FiniteSets, TLC

(* ---------------------------------------------------------------------- *)
(* Bounds of the model                                                     *)
(* ---------------------------------------------------------------------- *)
\* number of state_t nodes of the hierarchy
NumStates == 4
\* largest queue length handed to initEventQueue
MaxLength == 3
\* number of queue operations of the queue-only specification
MaxOps == 8
\* number of sendEvent calls of the interrupt specification
MaxSends == 4
\* depth to which interrupt handlers preempt one another
MaxNest == 2

(* ---------------------------------------------------------------------- *)
(* Program constants                                                       *)
(* ---------------------------------------------------------------------- *)
HSM_INITIAL == 0
HSM_ON_ENTRY == 1
HSM_ON_EXIT == 2
HSM_USER_START == 3

QUEUE_OK == 0
QUEUE_FULL == 1
QUEUE_EMPTY == 2

\* up_path and down_path have 16 entries
PathSize == 16
\* the path counters and i are uint8_t
Uint8 == 256
\* a null pointer (zero-initialised global pointers)
NULL == 0

\* the state_t objects, named 1..NumStates
States == 1..NumStates
\* the events interrupt handlers send: the first user event
UserEvents == {HSM_USER_START}
\* the events that are put in a queue: the deferred INITIAL and the user events
Events == {HSM_INITIAL} \cup UserEvents

\* The well-formed hierarchies: parent references an already constructed
\* state or the state itself (a root); every forest on NumStates nodes has
\* such a numbering.
Hierarchies == { p \in [States -> States] : \A s \in States : p[s] <= s }

\* The hierarchy of the documented scenarios, Root -> A -> {A1, A2, ...}:
\* state 1 is Root, state 2 is A, every other state is a child of A.
ExampleHierarchy == [s \in States |-> IF s <= 2 THEN 1 ELSE 2]

VARIABLES
    parent,          \* state_t.parent of every state
    currentState,    \* hsm->currentState
    eventQueue,      \* *hsm->eventQueue
    up_path,         \* global scratch array
    down_path,       \* global scratch array
    pc,              \* position of the main context
    ret,             \* where the running handler returns to
    state,           \* setState's argument
    curr_path_cntr,  \* setState local
    dest_path_cntr,  \* setState local
    no_entry,        \* setState local
    no_exit,         \* setState local
    i,               \* setState local
    currentEvent,    \* processHSM local
    from,            \* ghost: currentState when setState was called
    trace,           \* ghost: the handler calls and sends of the running handler's
                     \*        last setState (or the call of the handler itself)
    pushed,          \* ghost: events accepted by putEvent, in order
    popped,          \* ghost: events returned by getEvent, in order
    lastOp,          \* ghost: the last queue operation and its result
    nops,            \* ghost: number of queue operations so far
    primask,         \* interrupts are disabled (__disable_irq .. __enable_irq)
    isr,             \* the interrupt handlers that are running, innermost last:
                     \* each is inside its call of sendEvent
    cmp,             \* getEvent: the value of tail == head of line 163
    raced            \* ghost: a putEvent ran while a getEvent was in progress

vars == <<parent, currentState, eventQueue, up_path, down_path, pc, ret, state,
          curr_path_cntr, dest_path_cntr, no_entry, no_exit, i, currentEvent,
          from, trace, pushed, popped, lastOp, nops, primask, isr, cmp, raced>>

hsmVars == <<parent, currentState, up_path, down_path, pc, ret, state,
             curr_path_cntr, dest_path_cntr, no_entry, no_exit, i,
             currentEvent, from, trace>>

ghostQueueVars == <<pushed, popped, lastOp, nops>>

irqVars == <<primask, isr, cmp, raced>>

(* ---------------------------------------------------------------------- *)
(* The event queue                                                         *)
(* ---------------------------------------------------------------------- *)
initEventQueue(queue, length) ==
    [ queue  |-> queue,
      length |-> length,
      head   |-> 0,
      tail   |-> 0,
      full   |-> FALSE,
      empty  |-> TRUE ]

\* putEvent without the test of full: a full queue is overwritten
putEventOverwrite(q, event) ==
    LET head == IF q.head < q.length - 1 THEN q.head + 1 ELSE 0
    IN  [ eventQueue |-> [ q EXCEPT !.queue[q.head] = event,
                                    !.empty = FALSE,
                                    !.head  = head,
                                    !.full  = (q.tail = head) ],
          ret |-> QUEUE_OK ]

\* putEvent with full computed before head is advanced
putEventStaleFull(q, event) ==
    IF ~q.full
    THEN LET head == IF q.head < q.length - 1 THEN q.head + 1 ELSE 0
         IN  [ eventQueue |-> [ q EXCEPT !.queue[q.head] = event,
                                         !.empty = FALSE,
                                         !.head  = head,
                                         !.full  = (q.tail = q.head) ],
               ret |-> QUEUE_OK ]
    ELSE [ eventQueue |-> q, ret |-> QUEUE_FULL ]

\* putEvent without empty = false of line 181
putEventKeepsEmpty(q, event) ==
    IF ~q.full
    THEN LET head == IF q.head < q.length - 1 THEN q.head + 1 ELSE 0
         IN  [ eventQueue |-> [ q EXCEPT !.queue[q.head] = event,
                                         !.head  = head,
                                         !.full  = (q.tail = head) ],
               ret |-> QUEUE_OK ]
    ELSE [ eventQueue |-> q, ret |-> QUEUE_FULL ]

\* putEvent: the queue after the call and the returned code
putEvent(q, event) ==
    IF ~q.full
    THEN LET head == IF q.head < q.length - 1 THEN q.head + 1 ELSE 0
         IN  [ eventQueue |-> [ q EXCEPT !.queue[q.head] = event,
                                         !.empty = FALSE,
                                         !.head  = head,
                                         !.full  = (q.tail = head) ],
               ret |-> QUEUE_OK ]
    ELSE [ eventQueue |-> q, ret |-> QUEUE_FULL ]

\* getEvent reading the buffer at head instead of tail
getEventAtHead(q, old) ==
    IF ~q.empty
    THEN LET tail == IF q.tail < q.length - 1 THEN q.tail + 1 ELSE 0
         IN  [ eventQueue |-> [ q EXCEPT !.full  = FALSE,
                                         !.tail  = tail,
                                         !.empty = (tail = q.head) ],
               ret   |-> QUEUE_OK,
               event |-> q.queue[q.head] ]
    ELSE [ eventQueue |-> q, ret |-> QUEUE_EMPTY, event |-> old ]

\* getEvent without full = false of line 161
getEventKeepsFull(q, old) ==
    IF ~q.empty
    THEN LET tail == IF q.tail < q.length - 1 THEN q.tail + 1 ELSE 0
         IN  [ eventQueue |-> [ q EXCEPT !.tail  = tail,
                                         !.empty = (tail = q.head) ],
               ret   |-> QUEUE_OK,
               event |-> q.queue[q.tail] ]
    ELSE [ eventQueue |-> q, ret |-> QUEUE_EMPTY, event |-> old ]

\* getEvent: the queue after the call, the returned code and *event
\* (*event is left as it was, old, when the queue is empty)
getEvent(q, old) ==
    IF ~q.empty
    THEN LET tail == IF q.tail < q.length - 1 THEN q.tail + 1 ELSE 0
         IN  [ eventQueue |-> [ q EXCEPT !.full  = FALSE,
                                         !.tail  = tail,
                                         !.empty = (tail = q.head) ],
               ret   |-> QUEUE_OK,
               event |-> q.queue[q.tail] ]
    ELSE [ eventQueue |-> q, ret |-> QUEUE_EMPTY, event |-> old ]

\* sendEvent: putEvent with interrupts disabled, the result discarded
sendEvent(q, event) == putEvent(q, event).eventQueue

\* The caller's buffer: an event_t array in zero-initialised static storage
Buffer(length) == [k \in 0..(length - 1) |-> 0]

\* The queues of the transition specification: capacity 1, the smallest
\* capacity, which an interrupt fills with one event
SmallQueues == { initEventQueue(Buffer(1), 1) }

\* The queues of the other specifications: every capacity up to MaxLength
InitialQueues == { initEventQueue(Buffer(l), l) : l \in 1..MaxLength }

(* ---------------------------------------------------------------------- *)
(* Handler invocations and sends, as the ghost trace records them          *)
(* ---------------------------------------------------------------------- *)
\* s->handler(e), called while hsm->currentState is cur
Handler(s, e, cur) == [ op |-> "handler", st |-> s, ev |-> e, cur |-> cur ]
\* sendEvent(hsm, e), called while hsm->currentState is cur
Send(e, cur) == [ op |-> "sendEvent", st |-> NULL, ev |-> e, cur |-> cur ]

\* uint8_t arithmetic
Inc8(x) == (x + 1) % Uint8
Dec8(x) == (x - 1) % Uint8

\* the locals of setState do not outlive the call
LocalsDead ==
    /\ curr_path_cntr' = 0
    /\ dest_path_cntr' = 0
    /\ no_entry' = FALSE
    /\ no_exit' = FALSE
    /\ i' = 0

LocalsUnchanged == UNCHANGED <<curr_path_cntr, dest_path_cntr, no_entry, no_exit, i>>

(* ---------------------------------------------------------------------- *)
(* Initial states                                                          *)
(* ---------------------------------------------------------------------- *)
\* after initEventQueue, before initHSM
InitCommon ==
    /\ currentState = NULL
    /\ up_path = [k \in 0..(PathSize - 1) |-> NULL]
    /\ down_path = [k \in 0..(PathSize - 1) |-> NULL]
    /\ ret = "idle"
    /\ state = NULL
    /\ curr_path_cntr = 0
    /\ dest_path_cntr = 0
    /\ no_entry = FALSE
    /\ no_exit = FALSE
    /\ i = 0
    /\ currentEvent = HSM_INITIAL
    /\ from = NULL
    /\ trace = <<>>
    /\ pushed = <<>>
    /\ popped = <<>>
    /\ lastOp = [ op |-> "initEventQueue", event |-> HSM_INITIAL, ret |-> QUEUE_OK,
                  before |-> eventQueue ]
    /\ nops = 0
    /\ primask = FALSE
    /\ isr = <<>>
    /\ cmp = FALSE
    /\ raced = FALSE

\* the transition specification: every hierarchy, a queue of capacity 1
Init ==
    /\ eventQueue \in SmallQueues
    /\ InitCommon
    /\ parent \in Hierarchies
    /\ pc = "boot"

\* the scenario specification: the documented hierarchy, every capacity
InitExample ==
    /\ eventQueue \in InitialQueues
    /\ InitCommon
    /\ parent = ExampleHierarchy
    /\ pc = "boot"

\* the queue specification: a queue alone, driven by one context
InitQueue ==
    /\ eventQueue \in InitialQueues
    /\ InitCommon
    /\ parent = ExampleHierarchy
    /\ pc = "queue"

(* ---------------------------------------------------------------------- *)
(* initHSM                                                                 *)
(* ---------------------------------------------------------------------- *)
\* initHSM entering the initial state: ON_ENTRY, and the INITIAL through the queue
initHSM_EntersState(initialState) ==
    /\ pc = "boot"
    /\ currentState' = initialState
    /\ trace' = <<Handler(initialState, HSM_ON_ENTRY, initialState),
                  Send(HSM_INITIAL, initialState)>>
    /\ eventQueue' = sendEvent(eventQueue, HSM_INITIAL)
    /\ pc' = "handler"
    /\ ret' = "idle"
    /\ UNCHANGED <<parent, up_path, down_path, state, currentEvent, from>>
    /\ LocalsUnchanged
    /\ UNCHANGED <<ghostQueueVars, irqVars>>

\* hsm->currentState = initialState; hsm->eventQueue = eventQueue;
\* (hsm->currentState->handler)(HSM_INITIAL): the handler starts to run
initHSM(initialState) ==
    /\ pc = "boot"
    /\ currentState' = initialState
    /\ trace' = <<Handler(initialState, HSM_INITIAL, initialState)>>
    /\ pc' = "handler"
    /\ ret' = "idle"
    /\ UNCHANGED <<parent, eventQueue, up_path, down_path, state, currentEvent, from>>
    /\ LocalsUnchanged
    /\ UNCHANGED <<ghostQueueVars, irqVars>>

(* ---------------------------------------------------------------------- *)
(* setState                                                                *)
(* ---------------------------------------------------------------------- *)
\* the running handler calls setState( hsm, s ): the call and the test of line 59
setState(s) ==
    /\ pc = "handler"
    /\ state' = s
    /\ from' = currentState
    /\ trace' = <<>>
    /\ pc' = IF currentState = s THEN "L60" ELSE "L68"
    /\ UNCHANGED <<parent, currentState, eventQueue, up_path, down_path, ret, currentEvent>>
    /\ LocalsUnchanged
    /\ UNCHANGED <<ghostQueueVars, irqVars>>

\* self transition: state->handler( HSM_ON_EXIT )
L60 ==
    /\ pc = "L60"
    /\ trace' = Append(trace, Handler(state, HSM_ON_EXIT, currentState))
    /\ pc' = "L61"
    /\ UNCHANGED <<parent, currentState, eventQueue, up_path, down_path, ret, state,
                   currentEvent, from>>
    /\ LocalsUnchanged
    /\ UNCHANGED <<ghostQueueVars, irqVars>>

\* line 61 calling the handler with HSM_ON_EXIT a second time
L61_ExitAgain ==
    /\ pc = "L61"
    /\ trace' = Append(trace, Handler(state, HSM_ON_EXIT, currentState))
    /\ pc' = "L62"
    /\ UNCHANGED <<parent, currentState, eventQueue, up_path, down_path, ret, state,
                   currentEvent, from>>
    /\ LocalsUnchanged
    /\ UNCHANGED <<ghostQueueVars, irqVars>>

\* self transition: state->handler( HSM_ON_ENTRY )
L61 ==
    /\ pc = "L61"
    /\ trace' = Append(trace, Handler(state, HSM_ON_ENTRY, currentState))
    /\ pc' = "L62"
    /\ UNCHANGED <<parent, currentState, eventQueue, up_path, down_path, ret, state,
                   currentEvent, from>>
    /\ LocalsUnchanged
    /\ UNCHANGED <<ghostQueueVars, irqVars>>

\* self transition: sendEvent( hsm, HSM_INITIAL ) and return to the handler
L62 ==
    /\ pc = "L62"
    /\ eventQueue' = sendEvent(eventQueue, HSM_INITIAL)
    /\ trace' = Append(trace, Send(HSM_INITIAL, currentState))
    /\ pc' = "handler"
    /\ LocalsDead
    /\ UNCHANGED <<parent, currentState, up_path, down_path, ret, state, currentEvent, from>>
    /\ UNCHANGED <<ghostQueueVars, irqVars>>

\* curr_path_cntr = 0; up_path[curr_path_cntr] = hsm->currentState
L68 ==
    /\ pc = "L68"
    /\ curr_path_cntr' = 0
    /\ up_path' = [up_path EXCEPT ![0] = currentState]
    /\ pc' = "L69"
    /\ UNCHANGED <<parent, currentState, eventQueue, down_path, ret, state,
                   dest_path_cntr, no_entry, no_exit, i, currentEvent, from, trace>>
    /\ UNCHANGED <<ghostQueueVars, irqVars>>

\* one test of the while of line 69 and, when it holds, one run of its body;
\* on leaving the loop, lines 74-76
L69 ==
    /\ pc = "L69"
    /\ IF up_path[curr_path_cntr] # parent[up_path[curr_path_cntr]]
       THEN /\ curr_path_cntr' = Inc8(curr_path_cntr)
            /\ IF curr_path_cntr' \in 1..(PathSize - 1)
               THEN /\ up_path' = [up_path EXCEPT
                                     ![curr_path_cntr'] = parent[up_path[curr_path_cntr' - 1]]]
                    /\ pc' = "L69"
               ELSE /\ up_path' = up_path
                    /\ pc' = "overrun"
            /\ UNCHANGED <<down_path, dest_path_cntr>>
       ELSE /\ dest_path_cntr' = 0
            /\ down_path' = [down_path EXCEPT ![0] = state]
            /\ pc' = "L77"
            /\ UNCHANGED <<up_path, curr_path_cntr>>
    /\ UNCHANGED <<parent, currentState, eventQueue, ret, state,
                   no_entry, no_exit, i, currentEvent, from, trace>>
    /\ UNCHANGED <<ghostQueueVars, irqVars>>

\* one test of the while of line 77 and, when it holds, one run of its body;
\* on leaving the loop, lines 82-83
L77 ==
    /\ pc = "L77"
    /\ IF down_path[dest_path_cntr] # parent[down_path[dest_path_cntr]]
       THEN /\ dest_path_cntr' = Inc8(dest_path_cntr)
            /\ IF dest_path_cntr' \in 1..(PathSize - 1)
               THEN /\ down_path' = [down_path EXCEPT
                                       ![dest_path_cntr'] = parent[down_path[dest_path_cntr' - 1]]]
                    /\ pc' = "L77"
               ELSE /\ down_path' = down_path
                    /\ pc' = "overrun"
            /\ UNCHANGED <<no_entry, no_exit>>
       ELSE /\ no_entry' = FALSE
            /\ no_exit' = FALSE
            /\ pc' = "L84"
            /\ UNCHANGED <<down_path, dest_path_cntr>>
    /\ UNCHANGED <<parent, currentState, eventQueue, up_path, ret, state,
                   curr_path_cntr, i, currentEvent, from, trace>>
    /\ UNCHANGED <<ghostQueueVars, irqVars>>

\* line 84-99 without no_exit = true of line 86
L84_NoExitFlag ==
    /\ pc = "L84"
    /\ IF up_path[curr_path_cntr] = down_path[dest_path_cntr]
       THEN IF curr_path_cntr = 0
            THEN /\ no_exit' = no_exit
                 /\ dest_path_cntr' = Dec8(dest_path_cntr)
                 /\ pc' = "L101"
                 /\ UNCHANGED <<no_entry, curr_path_cntr>>
            ELSE IF dest_path_cntr = 0
                 THEN /\ no_entry' = TRUE
                      /\ curr_path_cntr' = Dec8(curr_path_cntr)
                      /\ pc' = "L101"
                      /\ UNCHANGED <<no_exit, dest_path_cntr>>
                 ELSE /\ curr_path_cntr' = Dec8(curr_path_cntr)
                      /\ dest_path_cntr' = Dec8(dest_path_cntr)
                      /\ pc' = "L84"
                      /\ UNCHANGED <<no_entry, no_exit>>
       ELSE /\ pc' = "L101"
            /\ UNCHANGED <<no_entry, no_exit, curr_path_cntr, dest_path_cntr>>
    /\ UNCHANGED <<parent, currentState, eventQueue, up_path, down_path, ret, state,
                   i, currentEvent, from, trace>>
    /\ UNCHANGED <<ghostQueueVars, irqVars>>

\* lines 84-99 without the tests of lines 85 and 90: the counters are
\* decremented whenever the two paths agree
L84_PrunesPastZero ==
    /\ pc = "L84"
    /\ IF up_path[curr_path_cntr] = down_path[dest_path_cntr]
       THEN /\ curr_path_cntr' = Dec8(curr_path_cntr)
            /\ dest_path_cntr' = Dec8(dest_path_cntr)
            /\ pc' = IF curr_path_cntr' < PathSize /\ dest_path_cntr' < PathSize
                     THEN "L84" ELSE "overrun"
       ELSE /\ pc' = "L101"
            /\ UNCHANGED <<curr_path_cntr, dest_path_cntr>>
    /\ UNCHANGED <<parent, currentState, eventQueue, up_path, down_path, ret, state,
                   no_entry, no_exit, i, currentEvent, from, trace>>
    /\ UNCHANGED <<ghostQueueVars, irqVars>>

\* one test of the while of line 84 and, when it holds, one run of its body
L84 ==
    /\ pc = "L84"
    /\ IF up_path[curr_path_cntr] = down_path[dest_path_cntr]
       THEN IF curr_path_cntr = 0
            THEN /\ no_exit' = TRUE
                 /\ dest_path_cntr' = Dec8(dest_path_cntr)
                 /\ pc' = "L101"
                 /\ UNCHANGED <<no_entry, curr_path_cntr>>
            ELSE IF dest_path_cntr = 0
                 THEN /\ no_entry' = TRUE
                      /\ curr_path_cntr' = Dec8(curr_path_cntr)
                      /\ pc' = "L101"
                      /\ UNCHANGED <<no_exit, dest_path_cntr>>
                 ELSE /\ curr_path_cntr' = Dec8(curr_path_cntr)
                      /\ dest_path_cntr' = Dec8(dest_path_cntr)
                      /\ pc' = "L84"
                      /\ UNCHANGED <<no_entry, no_exit>>
       ELSE /\ pc' = "L101"
            /\ UNCHANGED <<no_entry, no_exit, curr_path_cntr, dest_path_cntr>>
    /\ UNCHANGED <<parent, currentState, eventQueue, up_path, down_path, ret, state,
                   i, currentEvent, from, trace>>
    /\ UNCHANGED <<ghostQueueVars, irqVars>>

\* line 117 (hsm->currentState = state) done before the exit actions
L101_SetsStateEarly ==
    /\ pc = "L101"
    /\ i' = 0
    /\ currentState' = state
    /\ pc' = IF no_exit = FALSE THEN "L103" ELSE "L109"
    /\ UNCHANGED <<parent, eventQueue, up_path, down_path, ret, state,
                   curr_path_cntr, dest_path_cntr, no_entry, no_exit, currentEvent,
                   from, trace>>
    /\ UNCHANGED <<ghostQueueVars, irqVars>>

\* i = 0; if( no_exit == false )
L101 ==
    /\ pc = "L101"
    /\ i' = 0
    /\ pc' = IF no_exit = FALSE THEN "L103" ELSE "L109"
    /\ UNCHANGED <<parent, currentState, eventQueue, up_path, down_path, ret, state,
                   curr_path_cntr, dest_path_cntr, no_entry, no_exit, currentEvent,
                   from, trace>>
    /\ UNCHANGED <<ghostQueueVars, irqVars>>

\* lines 103-106 with a counter i that does not wrap at 0
L103_NoWrap ==
    /\ pc = "L103"
    /\ IF i <= curr_path_cntr
       THEN /\ IF i \in 0..(PathSize - 1)
               THEN /\ trace' = Append(trace, Handler(up_path[i], HSM_ON_EXIT, currentState))
                    /\ pc' = "L103"
               ELSE /\ trace' = trace
                    /\ pc' = "overrun"
            /\ i' = i - 1
       ELSE /\ pc' = "L109"
            /\ UNCHANGED <<i, trace>>
    /\ UNCHANGED <<parent, currentState, eventQueue, up_path, down_path, ret, state,
                   curr_path_cntr, dest_path_cntr, no_entry, no_exit, currentEvent, from>>
    /\ UNCHANGED <<ghostQueueVars, irqVars>>

\* one test of the while of line 103 and, when it holds, one run of its body
L103 ==
    /\ pc = "L103"
    /\ IF i <= curr_path_cntr
       THEN /\ IF i < PathSize
               THEN /\ trace' = Append(trace, Handler(up_path[i], HSM_ON_EXIT, currentState))
                    /\ pc' = "L103"
               ELSE /\ trace' = trace
                    /\ pc' = "overrun"
            /\ i' = Dec8(i)
       ELSE /\ pc' = "L109"
            /\ UNCHANGED <<i, trace>>
    /\ UNCHANGED <<parent, currentState, eventQueue, up_path, down_path, ret, state,
                   curr_path_cntr, dest_path_cntr, no_entry, no_exit, currentEvent, from>>
    /\ UNCHANGED <<ghostQueueVars, irqVars>>

\* line 110 as i = dest_path_cntr: the outermost node is not entered
L109_SkipOutermost ==
    /\ pc = "L109"
    /\ IF no_entry = FALSE
       THEN /\ i' = dest_path_cntr
            /\ pc' = "L112"
       ELSE /\ i' = i
            /\ pc' = "L117"
    /\ UNCHANGED <<parent, currentState, eventQueue, up_path, down_path, ret, state,
                   curr_path_cntr, dest_path_cntr, no_entry, no_exit, currentEvent,
                   from, trace>>
    /\ UNCHANGED <<ghostQueueVars, irqVars>>

\* line 110 as i = dest_path_cntr + 2: the common ancestor is entered too
L109_EntersLca ==
    /\ pc = "L109"
    /\ IF no_entry = FALSE
       THEN /\ i' = Inc8(Inc8(dest_path_cntr))
            /\ pc' = "L112"
       ELSE /\ i' = i
            /\ pc' = "L117"
    /\ UNCHANGED <<parent, currentState, eventQueue, up_path, down_path, ret, state,
                   curr_path_cntr, dest_path_cntr, no_entry, no_exit, currentEvent,
                   from, trace>>
    /\ UNCHANGED <<ghostQueueVars, irqVars>>

\* if( no_entry == false ){ i = dest_path_cntr + 1; ...
L109 ==
    /\ pc = "L109"
    /\ IF no_entry = FALSE
       THEN /\ i' = Inc8(dest_path_cntr)
            /\ pc' = "L112"
       ELSE /\ i' = i
            /\ pc' = "L117"
    /\ UNCHANGED <<parent, currentState, eventQueue, up_path, down_path, ret, state,
                   curr_path_cntr, dest_path_cntr, no_entry, no_exit, currentEvent,
                   from, trace>>
    /\ UNCHANGED <<ghostQueueVars, irqVars>>

\* one run of the body of the do-while of lines 111-114 and its test
L112 ==
    /\ pc = "L112"
    /\ i' = Dec8(i)
    /\ IF i' < PathSize
       THEN /\ trace' = Append(trace, Handler(down_path[i'], HSM_ON_ENTRY, currentState))
            /\ pc' = IF i' # 0 THEN "L112" ELSE "L117"
       ELSE /\ trace' = trace
            /\ pc' = "overrun"
    /\ UNCHANGED <<parent, currentState, eventQueue, up_path, down_path, ret, state,
                   curr_path_cntr, dest_path_cntr, no_entry, no_exit, currentEvent, from>>
    /\ UNCHANGED <<ghostQueueVars, irqVars>>

\* hsm->currentState = state
L117 ==
    /\ pc = "L117"
    /\ currentState' = state
    /\ pc' = "L118"
    /\ UNCHANGED <<parent, eventQueue, up_path, down_path, ret, state, currentEvent,
                   from, trace>>
    /\ LocalsUnchanged
    /\ UNCHANGED <<ghostQueueVars, irqVars>>

\* line 118 putting the INITIAL in front of the queued events
L118_InitialFirst ==
    /\ pc = "L118"
    /\ eventQueue' =
          IF eventQueue.full
          THEN eventQueue
          ELSE LET tail == (eventQueue.tail - 1) % eventQueue.length
               IN  [eventQueue EXCEPT !.queue[tail] = HSM_INITIAL,
                                      !.tail = tail,
                                      !.empty = FALSE,
                                      !.full = (tail = eventQueue.head)]
    /\ trace' = Append(trace, Send(HSM_INITIAL, currentState))
    /\ pc' = "handler"
    /\ LocalsDead
    /\ UNCHANGED <<parent, currentState, up_path, down_path, ret, state, currentEvent, from>>
    /\ UNCHANGED <<ghostQueueVars, irqVars>>

\* sendEvent( hsm, HSM_INITIAL ) and return to the handler
L118 ==
    /\ pc = "L118"
    /\ eventQueue' = sendEvent(eventQueue, HSM_INITIAL)
    /\ trace' = Append(trace, Send(HSM_INITIAL, currentState))
    /\ pc' = "handler"
    /\ LocalsDead
    /\ UNCHANGED <<parent, currentState, up_path, down_path, ret, state, currentEvent, from>>
    /\ UNCHANGED <<ghostQueueVars, irqVars>>

(* ---------------------------------------------------------------------- *)
(* processHSM                                                              *)
(* ---------------------------------------------------------------------- *)
\* the application calls processHSM
processHSM ==
    /\ pc = "idle"
    /\ pc' = "L130"
    /\ UNCHANGED <<parent, currentState, eventQueue, up_path, down_path, ret, state,
                   currentEvent, from, trace>>
    /\ LocalsUnchanged
    /\ UNCHANGED <<ghostQueueVars, irqVars>>

\* while( getEvent( hsm->eventQueue, &currentEvent ) != QUEUE_EMPTY )
\* (on QUEUE_EMPTY processHSM returns and its local currentEvent is gone)
L130 ==
    /\ pc = "L130"
    /\ LET r == getEvent(eventQueue, currentEvent)
       IN  /\ eventQueue' = r.eventQueue
           /\ currentEvent' = IF r.ret # QUEUE_EMPTY THEN r.event ELSE HSM_INITIAL
           /\ pc' = IF r.ret # QUEUE_EMPTY THEN "L131" ELSE "idle"
    /\ UNCHANGED <<parent, currentState, up_path, down_path, ret, state, from, trace>>
    /\ LocalsUnchanged
    /\ UNCHANGED <<ghostQueueVars, irqVars>>

\* (hsm->currentState->handler)(currentEvent): the handler starts to run
L131 ==
    /\ pc = "L131"
    /\ trace' = <<Handler(currentState, currentEvent, currentState)>>
    /\ pc' = "handler"
    /\ ret' = "L130"
    /\ UNCHANGED <<parent, currentState, eventQueue, up_path, down_path, state,
                   currentEvent, from>>
    /\ LocalsUnchanged
    /\ UNCHANGED <<ghostQueueVars, irqVars>>

\* processHSM with an if in place of the while of line 130: it returns after
\* the first handler
HandlerReturn_LeavesLoop ==
    /\ pc = "handler"
    /\ pc' = "idle"
    /\ state' = NULL
    /\ from' = NULL
    /\ trace' = <<>>
    /\ UNCHANGED <<parent, currentState, eventQueue, up_path, down_path, ret, currentEvent>>
    /\ LocalsUnchanged
    /\ UNCHANGED <<ghostQueueVars, irqVars>>

\* the running handler returns (after the calls of setState it made, if any)
HandlerReturn ==
    /\ pc = "handler"
    /\ pc' = ret
    /\ state' = NULL
    /\ from' = NULL
    /\ trace' = <<>>
    /\ UNCHANGED <<parent, currentState, eventQueue, up_path, down_path, ret, currentEvent>>
    /\ LocalsUnchanged
    /\ UNCHANGED <<ghostQueueVars, irqVars>>

(* ---------------------------------------------------------------------- *)
(* sendEvent from interrupt context                                        *)
(* ---------------------------------------------------------------------- *)
\* an interrupt handler calls sendEvent( hsm, event ); the main context is
\* never inside its own sendEvent when this runs (interrupts are disabled there)
IrqSendEvent(event) ==
    /\ pc \notin {"boot", "overrun"}
    /\ eventQueue' = sendEvent(eventQueue, event)
    /\ UNCHANGED hsmVars
    /\ UNCHANGED <<ghostQueueVars, irqVars>>

(* ---------------------------------------------------------------------- *)
(* The queue driven directly by one context                                *)
(* ---------------------------------------------------------------------- *)
\* one call putEvent( eventQueue, event )
QueuePut(event) ==
    /\ pc = "queue"
    /\ nops < MaxOps
    /\ LET r == putEvent(eventQueue, event)
       IN  /\ eventQueue' = r.eventQueue
           /\ pushed' = IF r.ret = QUEUE_OK THEN Append(pushed, event) ELSE pushed
           /\ lastOp' = [ op |-> "putEvent", event |-> event, ret |-> r.ret,
                          before |-> eventQueue ]
    /\ nops' = nops + 1
    /\ UNCHANGED popped
    /\ UNCHANGED <<hsmVars, irqVars>>

\* one call getEvent( eventQueue, &event )
QueueGet ==
    /\ pc = "queue"
    /\ nops < MaxOps
    /\ LET r == getEvent(eventQueue, lastOp.event)
       IN  /\ eventQueue' = r.eventQueue
           /\ popped' = IF r.ret = QUEUE_OK THEN Append(popped, r.event) ELSE popped
           /\ lastOp' = [ op |-> "getEvent", event |-> r.event, ret |-> r.ret,
                          before |-> eventQueue ]
    /\ nops' = nops + 1
    /\ UNCHANGED pushed
    /\ UNCHANGED <<hsmVars, irqVars>>

NextQueue ==
    \/ \E e \in Events : QueuePut(e)
    \/ QueueGet

Next ==
    \/ \E s \in States : initHSM(s)
    \/ \E s \in States : setState(s)
    \/ L60 \/ L61 \/ L62
    \/ L68 \/ L69 \/ L77 \/ L84
    \/ L101 \/ L103 \/ L109 \/ L112 \/ L117 \/ L118
    \/ processHSM \/ L130 \/ L131 \/ HandlerReturn
    \/ \E e \in UserEvents : IrqSendEvent(e)

Spec == Init /\ [][Next]_vars

SpecExample == InitExample /\ [][Next]_vars

SpecQueue == InitQueue /\ [][NextQueue]_vars

(* ---------------------------------------------------------------------- *)
(* sendEvent and getEvent line by line, preempted by interrupts            *)
(* ---------------------------------------------------------------------- *)
\* putEvent, lines 179-181: the test of full, the store, empty = false
putEvent179(q, event) ==
    IF ~q.full
    THEN [ eventQueue |-> [ q EXCEPT !.queue[q.head] = event, !.empty = FALSE ],
           ret |-> QUEUE_OK ]
    ELSE [ eventQueue |-> q, ret |-> QUEUE_FULL ]

\* putEvent, lines 182-183: head is advanced, full is computed
putEvent182(q) ==
    LET head == IF q.head < q.length - 1 THEN q.head + 1 ELSE 0
    IN  [ q EXCEPT !.head = head, !.full = (q.tail = head) ]

\* the events the interrupt handlers of the interrupt specification send:
\* two user events, so that one event is told from another
IrqEvents == {HSM_USER_START, HSM_USER_START + 1}

\* the main context is between line 159 and the return of getEvent
PopInProgress == pc \in {"G160", "G161", "G162", "G163", "G163w"}

\* the main context runs only while no interrupt handler does
MainRuns == isr = <<>>

\* the interrupt specification: the documented hierarchy, every capacity
InitIrq ==
    /\ eventQueue \in InitialQueues
    /\ InitCommon
    /\ parent = ExampleHierarchy
    /\ pc = "boot"

\* an interrupt is taken (interrupts are enabled): its handler starts and
\* calls sendEvent( hsm, event )
Interrupt(event) ==
    /\ pc \notin {"boot", "queue", "overrun"}
    /\ ~primask
    /\ Len(isr) < MaxNest
    /\ nops < MaxSends
    /\ isr' = Append(isr, [ pc |-> "S144", event |-> event ])
    /\ nops' = nops + 1
    /\ UNCHANGED <<hsmVars, eventQueue, pushed, popped, lastOp, primask, cmp, raced>>

\* sendEvent in an interrupt handler without __disable_irq() of line 144
Isr144_NoDisable ==
    /\ isr # <<>>
    /\ isr[Len(isr)].pc = "S144"
    /\ primask' = primask
    /\ isr' = [isr EXCEPT ![Len(isr)].pc = "S145"]
    /\ UNCHANGED <<hsmVars, eventQueue, ghostQueueVars, cmp, raced>>

\* sendEvent in the innermost interrupt handler: __disable_irq()
Isr144 ==
    /\ isr # <<>>
    /\ isr[Len(isr)].pc = "S144"
    /\ primask' = TRUE
    /\ isr' = [isr EXCEPT ![Len(isr)].pc = "S145"]
    /\ UNCHANGED <<hsmVars, eventQueue, ghostQueueVars, cmp, raced>>

\* ... putEvent, lines 179-181
Isr145 ==
    /\ isr # <<>>
    /\ isr[Len(isr)].pc = "S145"
    /\ LET r == putEvent179(eventQueue, isr[Len(isr)].event)
       IN  /\ eventQueue' = r.eventQueue
           /\ pushed' = IF r.ret = QUEUE_OK
                        THEN Append(pushed, isr[Len(isr)].event) ELSE pushed
           /\ isr' = [isr EXCEPT ![Len(isr)].pc =
                                     IF r.ret = QUEUE_OK THEN "S182" ELSE "S146"]
    /\ raced' = (raced \/ PopInProgress)
    /\ UNCHANGED <<hsmVars, popped, lastOp, nops, primask, cmp>>

\* ... putEvent, lines 182-183
Isr182 ==
    /\ isr # <<>>
    /\ isr[Len(isr)].pc = "S182"
    /\ eventQueue' = putEvent182(eventQueue)
    /\ isr' = [isr EXCEPT ![Len(isr)].pc = "S146"]
    /\ UNCHANGED <<hsmVars, ghostQueueVars, primask, cmp, raced>>

\* ... __enable_irq(), and the interrupt handler returns
Isr146 ==
    /\ isr # <<>>
    /\ isr[Len(isr)].pc = "S146"
    /\ primask' = FALSE
    /\ isr' = SubSeq(isr, 1, Len(isr) - 1)
    /\ UNCHANGED <<hsmVars, eventQueue, ghostQueueVars, cmp, raced>>

\* sendEvent( hsm, HSM_INITIAL ) of setState (lines 62, 118): __disable_irq()
Main144 ==
    /\ MainRuns
    /\ pc \in {"L62", "L118"}
    /\ primask' = TRUE
    /\ pc' = "S145"
    /\ UNCHANGED <<parent, currentState, eventQueue, up_path, down_path, ret, state,
                   currentEvent, from, trace>>
    /\ LocalsUnchanged
    /\ UNCHANGED <<ghostQueueVars, isr, cmp, raced>>

\* ... putEvent, lines 179-181
Main145 ==
    /\ MainRuns
    /\ pc = "S145"
    /\ LET r == putEvent179(eventQueue, HSM_INITIAL)
       IN  /\ eventQueue' = r.eventQueue
           /\ pushed' = IF r.ret = QUEUE_OK THEN Append(pushed, HSM_INITIAL) ELSE pushed
           /\ pc' = IF r.ret = QUEUE_OK THEN "S182" ELSE "S146"
    /\ nops' = nops + 1
    /\ UNCHANGED <<parent, currentState, up_path, down_path, ret, state,
                   currentEvent, from, trace>>
    /\ LocalsUnchanged
    /\ UNCHANGED <<popped, lastOp, irqVars>>

\* ... putEvent, lines 182-183
Main182 ==
    /\ MainRuns
    /\ pc = "S182"
    /\ eventQueue' = putEvent182(eventQueue)
    /\ pc' = "S146"
    /\ UNCHANGED <<parent, currentState, up_path, down_path, ret, state,
                   currentEvent, from, trace>>
    /\ LocalsUnchanged
    /\ UNCHANGED <<ghostQueueVars, irqVars>>

\* ... __enable_irq(), and setState returns to the handler
Main146 ==
    /\ MainRuns
    /\ pc = "S146"
    /\ primask' = FALSE
    /\ trace' = Append(trace, Send(HSM_INITIAL, currentState))
    /\ pc' = "handler"
    /\ LocalsDead
    /\ UNCHANGED <<parent, currentState, eventQueue, up_path, down_path, ret, state,
                   currentEvent, from>>
    /\ UNCHANGED <<ghostQueueVars, isr, cmp, raced>>

\* getEvent called by the while of line 130; line 159: if( !eventQueue->empty )
G159 ==
    /\ MainRuns
    /\ pc = "L130"
    /\ IF ~eventQueue.empty
       THEN /\ pc' = "G160"
            /\ UNCHANGED currentEvent
       ELSE /\ pc' = "idle"
            /\ currentEvent' = HSM_INITIAL
    /\ UNCHANGED <<parent, currentState, eventQueue, up_path, down_path, ret, state,
                   from, trace>>
    /\ LocalsUnchanged
    /\ UNCHANGED <<ghostQueueVars, irqVars>>

\* line 160: *event = eventQueue->queue[eventQueue->tail]
G160 ==
    /\ MainRuns
    /\ pc = "G160"
    /\ currentEvent' = eventQueue.queue[eventQueue.tail]
    /\ pc' = "G161"
    /\ UNCHANGED <<parent, currentState, eventQueue, up_path, down_path, ret, state,
                   from, trace>>
    /\ LocalsUnchanged
    /\ UNCHANGED <<ghostQueueVars, irqVars>>

\* line 161: eventQueue->full = false
G161 ==
    /\ MainRuns
    /\ pc = "G161"
    /\ eventQueue' = [eventQueue EXCEPT !.full = FALSE]
    /\ pc' = "G162"
    /\ UNCHANGED <<parent, currentState, up_path, down_path, ret, state,
                   currentEvent, from, trace>>
    /\ LocalsUnchanged
    /\ UNCHANGED <<ghostQueueVars, irqVars>>

\* line 162: tail is advanced
G162 ==
    /\ MainRuns
    /\ pc = "G162"
    /\ eventQueue' = [eventQueue EXCEPT !.tail =
                         IF eventQueue.tail < eventQueue.length - 1
                         THEN eventQueue.tail + 1 ELSE 0]
    /\ pc' = "G163"
    /\ UNCHANGED <<parent, currentState, up_path, down_path, ret, state,
                   currentEvent, from, trace>>
    /\ LocalsUnchanged
    /\ UNCHANGED <<ghostQueueVars, irqVars>>

\* line 163, the reads: eventQueue->tail == eventQueue->head
G163 ==
    /\ MainRuns
    /\ pc = "G163"
    /\ cmp' = (eventQueue.tail = eventQueue.head)
    /\ pc' = "G163w"
    /\ UNCHANGED <<parent, currentState, eventQueue, up_path, down_path, ret, state,
                   currentEvent, from, trace>>
    /\ LocalsUnchanged
    /\ UNCHANGED <<ghostQueueVars, primask, isr, raced>>

\* line 163, the write of empty, and return QUEUE_OK to line 130
G163w ==
    /\ MainRuns
    /\ pc = "G163w"
    /\ eventQueue' = [eventQueue EXCEPT !.empty = cmp]
    /\ cmp' = FALSE
    /\ popped' = Append(popped, currentEvent)
    /\ pc' = "L131"
    /\ UNCHANGED <<parent, currentState, up_path, down_path, ret, state,
                   currentEvent, from, trace>>
    /\ LocalsUnchanged
    /\ UNCHANGED <<pushed, lastOp, nops, primask, isr, raced>>

\* the running handler makes a self transition, setState( hsm, currentState )
SelfSetState ==
    /\ nops < MaxSends
    /\ setState(currentState)

NextIrq ==
    \/ initHSM(1)
    \/ MainRuns /\ (SelfSetState \/ L60 \/ L61 \/ processHSM \/ L131 \/ HandlerReturn)
    \/ Main144 \/ Main145 \/ Main182 \/ Main146
    \/ G159 \/ G160 \/ G161 \/ G162 \/ G163 \/ G163w
    \/ \E e \in IrqEvents : Interrupt(e)
    \/ Isr144 \/ Isr145 \/ Isr182 \/ Isr146

SpecIrq == InitIrq /\ [][NextIrq]_vars

(* ---------------------------------------------------------------------- *)
(* setState in hierarchies as deep as the scratch arrays allow             *)
(* ---------------------------------------------------------------------- *)
\* where the second branch of a deep hierarchy leaves the first: at the
\* root, half way down, at the parent of the leaf
ForkNodes == {1, PathSize \div 2, PathSize - 1}

\* nodes 1..PathSize are a chain below the root 1; the nodes after them are
\* a second chain below node f, as long as makes its leaf as deep as
\* PathSize: both leaves have PathSize nodes on their way to the root
DeepHierarchy(f) ==
    [ s \in 1..(2 * PathSize - f) |->
        IF s = 1 THEN 1
        ELSE IF s = PathSize + 1 THEN f
        ELSE s - 1 ]

DeepHierarchies == { DeepHierarchy(f) : f \in ForkNodes }

InitDeep ==
    /\ eventQueue \in SmallQueues
    /\ InitCommon
    /\ parent \in DeepHierarchies
    /\ pc = "boot"

\* the first call of setState the running handler makes
FirstSetState(s) == from = NULL /\ setState(s)

\* the handler initHSM calls makes one transition, from any state to any state
NextDeep ==
    \/ \E s \in DOMAIN parent : initHSM(s)
    \/ \E s \in DOMAIN parent : FirstSetState(s)
    \/ L60 \/ L61 \/ L62
    \/ L68 \/ L69 \/ L77 \/ L84
    \/ L101 \/ L103 \/ L109 \/ L112 \/ L117 \/ L118
    \/ HandlerReturn

SpecDeep == InitDeep /\ [][NextDeep]_vars

(* ---------------------------------------------------------------------- *)
(* The hierarchy, as the documented transition rules speak of it           *)
(* ---------------------------------------------------------------------- *)
RECURSIVE Chain(_)
\* the parent chain s, parent(s), ..., root
Chain(s) == IF parent[s] = s THEN <<s>> ELSE <<s>> \o Chain(parent[s])

AncestorsOrSelf(s) == { Chain(s)[k] : k \in 1..Len(Chain(s)) }

RootOf(s) == Chain(s)[Len(Chain(s))]

IsProperAncestor(a, s) == a # s /\ a \in AncestorsOrSelf(s)

\* how many nodes of the chain of s lie strictly below the least common
\* ancestor of s and t (s and t in one hierarchy)
BelowLCA(s, t) ==
    CHOOSE n \in 0..(Len(Chain(s)) - 1) :
        /\ Chain(s)[n + 1] \in AncestorsOrSelf(t)
        /\ \A k \in 1..n : Chain(s)[k] \notin AncestorsOrSelf(t)

LCA(s, t) == Chain(s)[BelowLCA(s, t) + 1]

\* the nodes to exit, innermost first: s up to, not including, the LCA
ExitPath(s, t) == SubSeq(Chain(s), 1, BelowLCA(s, t))

\* the nodes to enter, outermost first: the LCA's child down to t
EntryPath(s, t) ==
    [ k \in 1..BelowLCA(t, s) |-> Chain(t)[BelowLCA(t, s) + 1 - k] ]

\* the states whose handler the transition called with event e, in call order
Calls(e) ==
    LET sel == SelectSeq(trace, LAMBDA r : r.op = "handler" /\ r.ev = e)
    IN  [ k \in 1..Len(sel) |-> sel[k].st ]

\* all handler calls of the transition, in call order, as <<state, event>>
HandlerCalls ==
    LET sel == SelectSeq(trace, LAMBDA r : r.op = "handler")
    IN  [ k \in 1..Len(sel) |-> <<sel[k].st, sel[k].ev>> ]

\* a setState is running or has just returned to the handler that called it
InSetState == from \in States /\ state \in States

\* that setState has returned
Returned == InSetState /\ pc = "handler"

\* a general transition S -> T, T # S, inside one hierarchy
General == InSetState /\ state # from /\ RootOf(from) = RootOf(state)

\* the exit phase (lines 101-107) of a general transition is over
ExitPhaseDone == pc \in {"L109", "L112", "L117", "L118", "handler"}

\* the entry phase (lines 108-115) of a general transition is over
EntryPhaseDone == pc \in {"L117", "L118", "handler"}

\* the events the queue holds, oldest first
Contents(q) ==
    LET n == IF q.full THEN q.length ELSE (q.head - q.tail) % q.length
    IN  [ k \in 1..n |-> q.queue[(q.tail + k - 1) % q.length] ]

(* ---------------------------------------------------------------------- *)
(* C1..C5: exit and entry actions of a general transition                  *)
(* ---------------------------------------------------------------------- *)
\* C1: in a general transition S -> T where S is not an ancestor of T,
\* ON_EXIT goes to every node from S up to, not including, the LCA, once
\* each, innermost first, whatever the distance between S and the LCA.
C1_ExitChain ==
    (General /\ ExitPhaseDone /\ from \notin AncestorsOrSelf(state))
        => Calls(HSM_ON_EXIT) = ExitPath(from, state)

\* C2: in a general transition S -> T where T is not an ancestor of S,
\* ON_ENTRY goes to every node of T's chain strictly below the LCA, once
\* each, outermost first (the LCA's child first, T last).
C2_EntryChain ==
    (General /\ EntryPhaseDone /\ state \notin AncestorsOrSelf(from))
        => Calls(HSM_ON_ENTRY) = EntryPath(from, state)

\* C2 witness: a finished entry phase that entered two or more nodes in a
\* transition that is neither to a descendant nor to an ancestor
C2_Witness ==
    /\ General /\ EntryPhaseDone
    /\ state \notin AncestorsOrSelf(from)
    /\ from \notin AncestorsOrSelf(state)
    /\ Len(EntryPath(from, state)) >= 2
    /\ Len(Calls(HSM_ON_ENTRY)) >= 2

\* C3: when T is a proper descendant of S no ON_EXIT is delivered at any
\* moment of the call, and the handler calls of the whole call are the
\* ON_ENTRY of the nodes strictly below S on the path to T, top down.
C3_Descendant ==
    (InSetState /\ IsProperAncestor(from, state))
        => /\ Calls(HSM_ON_EXIT) = <<>>
           /\ EntryPhaseDone =>
                HandlerCalls = [ k \in 1..Len(EntryPath(from, state)) |->
                                   <<EntryPath(from, state)[k], HSM_ON_ENTRY>> ]

\* C3 witness: a finished transition to a grandchild (or deeper)
C3_Witness ==
    /\ Returned
    /\ IsProperAncestor(from, state)
    /\ parent[state] # from
    /\ Len(HandlerCalls) >= 2

\* C3 witness' documented case: a finished transition to a direct child
C3_WitnessChild ==
    /\ Returned
    /\ state # from /\ parent[state] = from
    /\ HandlerCalls = << <<state, HSM_ON_ENTRY>> >>

\* C4: when T is a proper ancestor of S no ON_ENTRY is delivered and
\* ON_EXIT goes exactly to the nodes from S up to, not including, T.
C4_Ancestor ==
    (InSetState /\ IsProperAncestor(state, from) /\ EntryPhaseDone)
        => /\ Calls(HSM_ON_ENTRY) = <<>>
           /\ Calls(HSM_ON_EXIT) = ExitPath(from, state)

\* C5: in a general transition no common ancestor-or-self of S and T (the
\* LCA and everything above it) gets ON_EXIT or ON_ENTRY at any moment of
\* the call; between siblings only S is exited and only T is entered.
C5_SharedUntouched ==
    General =>
        /\ \A k \in 1..Len(trace) :
              trace[k].op = "handler" =>
                  trace[k].st \notin (AncestorsOrSelf(from) \cap AncestorsOrSelf(state))
        /\ (EntryPhaseDone /\ parent[from] = parent[state] /\ parent[from] # from
              /\ parent[state] # state)
             => HandlerCalls = << <<from, HSM_ON_EXIT>>, <<state, HSM_ON_ENTRY>> >>

\* C5 witness: a finished sibling transition below a non-root parent
C5_Witness ==
    /\ General /\ Returned
    /\ parent[from] = parent[state]
    /\ parent[from] \notin {from, state}
    /\ parent[parent[from]] # parent[from]
    /\ Len(HandlerCalls) = 2

(* ---------------------------------------------------------------------- *)
(* C6..C8: self transition, the deferred INITIAL, the order of the steps   *)
(* ---------------------------------------------------------------------- *)
\* what a self transition on s does, in order
SelfTransition(s) ==
    << Handler(s, HSM_ON_EXIT, s), Handler(s, HSM_ON_ENTRY, s), Send(HSM_INITIAL, s) >>

\* C6: setState(hsm, currentState) calls the current state's handler with
\* ON_EXIT and then with ON_ENTRY, once each and in that order, calls no
\* other handler, and leaves currentState as it was.
C6_SelfTransition ==
    (InSetState /\ state = from)
        => /\ currentState = from
           /\ Len(trace) <= 3
           /\ trace = SubSeq(SelfTransition(from), 1, Len(trace))
           /\ Returned => trace = SelfTransition(from)

\* C6 witness: a self transition that has returned
C6_Witness ==
    /\ Returned
    /\ state = from
    /\ Len(HandlerCalls) = 2

\* the step in which setState does its sendEvent and returns
SetStateSends == pc \in {"L62", "L118"} /\ pc' = "handler"

\* C7 as stated: every setState, from any queue state, leaves the queue
\* holding its previous contents followed by one more INITIAL.
C7_AlwaysOneInitial ==
    [][ SetStateSends =>
          Contents(eventQueue') = Append(Contents(eventQueue), HSM_INITIAL) ]_vars

\* C7 as amended: a setState whose sendEvent finds the queue not full leaves
\* it holding its previous contents followed by one more INITIAL; one that
\* finds it full leaves the queue as it was (the INITIAL is dropped).
C7_OneInitialUnlessFull ==
    [][ SetStateSends =>
          IF eventQueue.full
          THEN eventQueue' = eventQueue
          ELSE Contents(eventQueue') = Append(Contents(eventQueue), HSM_INITIAL) ]_vars

\* C7 witness: setState has returned and its INITIAL stands behind an
\* event that was queued before
C7_Witness ==
    /\ Returned
    /\ Len(Contents(eventQueue)) >= 2
    /\ Contents(eventQueue)[Len(Contents(eventQueue))] = HSM_INITIAL
    /\ Contents(eventQueue)[Len(Contents(eventQueue)) - 1] = HSM_USER_START

\* C7 witness of the full case: setState is about to send to a full queue
C7_WitnessFull ==
    /\ InSetState
    /\ pc \in {"L62", "L118"}
    /\ eventQueue.full

\* C8: inside one setState(hsm, T) every ON_EXIT call precedes every
\* ON_ENTRY call, currentState is still S during every handler call and
\* becomes T only after the last of them, the INITIAL is sent last, no
\* handler is called with INITIAL, and on return currentState = T.
C8_Order ==
    InSetState =>
        /\ \A j, k \in 1..Len(trace) :
              (j < k /\ trace[j].op = "handler" /\ trace[k].op = "handler"
                 /\ trace[j].ev = HSM_ON_ENTRY) => trace[k].ev # HSM_ON_EXIT
        /\ \A k \in 1..Len(trace) :
              /\ trace[k].op = "handler" =>
                    /\ trace[k].cur = from
                    /\ trace[k].ev \in {HSM_ON_EXIT, HSM_ON_ENTRY}
              /\ trace[k].op = "sendEvent" =>
                    /\ k = Len(trace)
                    /\ trace[k].ev = HSM_INITIAL
                    /\ trace[k].cur = state
        /\ pc \notin {"L118", "handler", "overrun"} => currentState = from
        /\ pc = "L118" => currentState = state
        /\ Returned =>
              /\ currentState = state
              /\ Len(trace) >= 1
              /\ trace[Len(trace)].op = "sendEvent"

\* C8 witness: a returned transition that exited and entered states
C8_Witness ==
    /\ Returned
    /\ state # from
    /\ Len(Calls(HSM_ON_EXIT)) >= 1
    /\ Len(Calls(HSM_ON_ENTRY)) >= 2
    /\ currentState = state

(* ---------------------------------------------------------------------- *)
(* C9, C10: the queue driven by one context                                *)
(* ---------------------------------------------------------------------- *)
\* C9: the events returned by successful getEvent calls are, in order, a
\* prefix of the events accepted by successful putEvent calls.
C9_Fifo ==
    /\ Len(popped) <= Len(pushed)
    /\ popped = SubSeq(pushed, 1, Len(popped))

\* C9 witness: head and tail have both wrapped around and the events
\* returned differ
C9_Witness ==
    /\ pc = "queue"
    /\ eventQueue.length >= 2
    /\ Len(popped) > eventQueue.length
    /\ Len(pushed) > Len(popped)
    /\ \E j, k \in 1..Len(popped) : popped[j] # popped[k]

\* C10: putEvent on a full queue returns QUEUE_FULL and leaves buffer,
\* head, tail, full and empty as they were.
C10_FullUnchanged ==
    (lastOp.op = "putEvent" /\ lastOp.before.full)
        => /\ lastOp.ret = QUEUE_FULL
           /\ eventQueue = lastOp.before

\* C10 witness: a putEvent on a full queue of capacity 2 or more that
\* holds an event different from the one offered
C10_Witness ==
    /\ lastOp.op = "putEvent"
    /\ lastOp.before.full
    /\ lastOp.before.length >= 2
    /\ \E k \in 0..(lastOp.before.length - 1) : lastOp.before.queue[k] # lastOp.event

(* ---------------------------------------------------------------------- *)
(* C11, C12: full and empty                                                *)
(* ---------------------------------------------------------------------- *)
\* the number of events accepted and not yet returned
Held == Len(pushed) - Len(popped)

\* the number of them before the last queue operation
HeldBefore ==
    IF lastOp.ret # QUEUE_OK THEN Held
    ELSE IF lastOp.op = "putEvent" THEN Held - 1
    ELSE IF lastOp.op = "getEvent" THEN Held + 1
    ELSE Held

\* C11: for every capacity C >= 1 putEvent succeeds exactly when fewer than
\* C events are held and getEvent exactly when at least one is held; the
\* queue reports full exactly when C are held (so after C pushes on an
\* empty queue a further push returns QUEUE_FULL, and one pop allows
\* exactly one more push).
C11_FullEmpty ==
    /\ Held \in 0..eventQueue.length
    /\ eventQueue.full <=> (Held = eventQueue.length)
    /\ eventQueue.empty <=> (Held = 0)
    /\ lastOp.op = "putEvent" =>
          ((lastOp.ret = QUEUE_OK) <=> (HeldBefore < eventQueue.length))
    /\ lastOp.op = "putEvent" => lastOp.ret \in {QUEUE_OK, QUEUE_FULL}
    /\ lastOp.op = "getEvent" =>
          ((lastOp.ret = QUEUE_OK) <=> (HeldBefore >= 1))
    /\ lastOp.op = "getEvent" => lastOp.ret \in {QUEUE_OK, QUEUE_EMPTY}

\* C11 witness: the queue was filled, one event was popped, one more push
\* was accepted and the push after it has just been refused
C11_Witness ==
    /\ pc = "queue"
    /\ eventQueue.length >= 2
    /\ Len(popped) = 1
    /\ Len(pushed) = eventQueue.length + 1
    /\ lastOp.op = "putEvent"
    /\ lastOp.ret = QUEUE_FULL
    /\ eventQueue.full

\* C12: after initEventQueue and any sequence of putEvent and getEvent,
\* full and empty are never both true, head and tail are in [0, length),
\* and head = tail exactly when full or empty is true.
C12_Flags ==
    pc = "queue" =>
        /\ ~(eventQueue.full /\ eventQueue.empty)
        /\ eventQueue.head \in 0..(eventQueue.length - 1)
        /\ eventQueue.tail \in 0..(eventQueue.length - 1)
        /\ (eventQueue.head = eventQueue.tail) <=> (eventQueue.full \/ eventQueue.empty)

\* C12 witness: a full queue whose head and tail meet away from index 0
C12_Witness ==
    /\ pc = "queue"
    /\ eventQueue.full
    /\ eventQueue.head = eventQueue.tail
    /\ eventQueue.head > 0
    /\ Len(popped) > 0

(* ---------------------------------------------------------------------- *)
(* C13, C14, C19: sendEvent from interrupt handlers                        *)
(* ---------------------------------------------------------------------- *)
\* the contexts that are between __disable_irq() and __enable_irq()
InPushPath ==
    { k \in 1..Len(isr) : isr[k].pc \in {"S145", "S182", "S146"} }
        \cup (IF pc \in {"S145", "S182", "S146"} THEN {0} ELSE {})

\* no putEvent and no getEvent is under way
QueueAtRest == InPushPath = {} /\ ~PopInProgress

\* C13: with interrupt handlers calling sendEvent between any two memory
\* accesses of processHSM's getEvent, no accepted event is lost,
\* overwritten or duplicated, and accepted events are popped in the order
\* they were accepted: what getEvent returned is a prefix of what putEvent
\* accepted, and when processHSM finds the queue empty every accepted event
\* has been returned.
C13_IrqSafe ==
    /\ Len(popped) <= Len(pushed)
    /\ popped = SubSeq(pushed, 1, Len(popped))
    /\ (isr = <<>> /\ pc \in {"L130", "idle"} /\ eventQueue.empty) => popped = pushed

\* C14: at most one context is ever inside the push path, and as long as
\* no putEvent ran while a getEvent was in progress the queue at rest
\* holds exactly the accepted events not yet popped, each once, in the
\* order their pushes ran.
C14_Serialized ==
    /\ Cardinality(InPushPath) <= 1
    /\ InPushPath # {} => primask
    /\ (~raced /\ QueueAtRest) => pushed = popped \o Contents(eventQueue)

\* C14 witness: three contexts are inside sendEvent, the innermost one in
\* the middle of putEvent, and events of the main context and of an
\* interrupt handler are already in the queue
C14_Witness ==
    /\ Len(isr) = 2
    /\ pc \in {"L62", "L118"}
    /\ isr[1].pc = "S144"
    /\ isr[2].pc = "S182"
    /\ ~raced
    /\ \E j \in 1..Len(pushed) : pushed[j] = HSM_INITIAL
    /\ \E j \in 1..Len(pushed) : pushed[j] \in IrqEvents

\* C19: under interrupts between the steps of getEvent, full and empty
\* are never both true, and empty is true only when no accepted event is
\* left undelivered.
C19_FlagsUnderIrq ==
    /\ ~(eventQueue.full /\ eventQueue.empty)
    /\ eventQueue.empty => Held = 0

(* ---------------------------------------------------------------------- *)
(* C15, C20: the loop of processHSM                                        *)
(* ---------------------------------------------------------------------- *)
\* the step in which processHSM returns to the application
ProcessReturns ==
    /\ pc' = "idle"
    /\ pc \notin {"idle", "boot"}
    /\ ~(pc = "handler" /\ ret = "idle")

\* the step in which processHSM pops an event
Pops == pc = "L130" /\ pc' = "L131"

\* the step in which processHSM calls the handler with the popped event
Dispatches == pc = "L131" /\ pc' = "handler"

\* the step in which a handler called by processHSM returns to it
BackInLoop ==
    /\ pc = "handler"
    /\ ret = "L130"
    /\ pc' \notin {"handler", "L60", "L68"}

\* the step calls a handler with an event that is neither ON_ENTRY nor ON_EXIT
CallsWithQueueEvent ==
    /\ trace' # trace
    /\ trace' # <<>>
    /\ trace'[Len(trace')].op = "handler"
    /\ trace'[Len(trace')].ev \notin {HSM_ON_ENTRY, HSM_ON_EXIT}

C16_InitAsymmetry ==
    [][ pc = "boot" =>
          /\ pc' = "handler"
          /\ currentState' \in States
          /\ trace' = <<Handler(currentState', HSM_INITIAL, currentState')>>
          /\ \A k \in 1..Len(trace') : trace'[k].ev # HSM_ON_ENTRY
          /\ \A k \in 1..Len(trace') : trace'[k].op # "sendEvent"
          /\ eventQueue' = eventQueue
          /\ Contents(eventQueue') = <<>> ]_vars

\* C16 witness: initHSM has started the machine in the leaf of
\* Root -> Mid -> Leaf and the leaf's handler runs with INITIAL
C16_Witness ==
    /\ pc = "handler"
    /\ ret = "idle"
    /\ from = NULL
    /\ Len(Chain(currentState)) >= 3
    /\ HandlerCalls = << <<currentState, HSM_INITIAL>> >>
    /\ eventQueue \in SmallQueues

(* ---------------------------------------------------------------------- *)
(* C17, C18: termination and the bounds of the scratch arrays              *)
(* ---------------------------------------------------------------------- *)
\* the positions inside setState
SetStatePcs ==
    {"L60", "L61", "L62", "L68", "L69", "L77", "L84", "L101", "L103", "L109",
     "L112", "L117", "L118"}

\* the weight of one phase of setState: more than any loop can run
Phase == 2 * Uint8

\* how many more times the test of line 103 can hold: i counts down from
\* its value to 0 and then wraps
ExitRunsLeft == IF i <= curr_path_cntr THEN i + 1 ELSE 0

\* a bound on the steps setState still has to make
Rank ==
    CASE pc = "L68"  -> 7 * Phase
      [] pc = "L69"  -> 6 * Phase + Len(Chain(up_path[curr_path_cntr]))
      [] pc = "L77"  -> 5 * Phase + Len(Chain(down_path[dest_path_cntr]))
      [] pc = "L84"  -> 4 * Phase + curr_path_cntr + dest_path_cntr + 1
      [] pc = "L101" -> 4 * Phase
      [] pc = "L103" -> 3 * Phase + ExitRunsLeft
      [] pc = "L109" -> 2 * Phase
      [] pc = "L112" -> Phase + i
      [] pc = "L60"  -> 3
      [] pc = "L117" \/ pc = "L61" -> 2
      [] pc = "L118" \/ pc = "L62" -> 1
      [] OTHER -> 0

\* C17: every step the main context makes inside setState stays inside
\* setState or returns from it, and brings it nearer to its return: the
\* two walks end at the root, the pruning loop ends, and the exit loop
\* ends when i has wrapped from 0 to 255, which is more than
\* curr_path_cntr.
C17_Terminates ==
    [][ (pc \in SetStatePcs /\ hsmVars' # hsmVars) =>
          /\ pc' \in SetStatePcs \cup {"handler"}
          /\ 0 <= Rank'
          /\ Rank' < Rank ]_vars

\* C17 witness: in a hierarchy 16 deep, a transition between the two
\* leaves, which meet at the root: the exit loop has run with i = 0, i has
\* wrapped, and the test of line 103 is about to fail
C17_Witness ==
    /\ pc = "L103"
    /\ i = Uint8 - 1
    /\ curr_path_cntr = PathSize - 2
    /\ dest_path_cntr = PathSize - 2
    /\ Len(Chain(from)) = PathSize
    /\ Len(Chain(state)) = PathSize
    /\ Len(Calls(HSM_ON_EXIT)) = 1

\* C18: setState never leaves the scratch arrays: both counters stay in
\* 0..15 (a decrement at 0 would give 255), the exit loop uses i as an
\* index only when it is in 0..15, and so does the entry loop.
C18_PathBounds ==
    /\ pc # "overrun"
    /\ curr_path_cntr \in 0..(PathSize - 1)
    /\ dest_path_cntr \in 0..(PathSize - 1)
    /\ (pc = "L103" /\ i <= curr_path_cntr) => i \in 0..(PathSize - 1)
    /\ pc = "L103" => i \in {0, Uint8 - 1}
    /\ pc = "L112" => Dec8(i) \in 0..(PathSize - 1)

\* C18 witness: both paths fill their array: the walks from two leaves
\* 16 deep have ended at index 15
C18_Witness ==
    /\ pc = "L84"
    /\ curr_path_cntr = PathSize - 1
    /\ dest_path_cntr = PathSize - 1
    /\ up_path[PathSize - 1] = down_path[PathSize - 1]
    /\ from # state

====
